---------------------------- MODULE Spec2Model ----------------------------
(* A model of the MachineHealthCheck controller                            *)
(* (controllers/machinehealthcheck_controller.go): the Reconcile pass, the *)
(* per-cluster node watch registry (clusterNodeInformers) and the health   *)
(* evaluation that feeds the policy status and the requeue delay.          *)
(* Reconcile passes of different policies run concurrently on the          *)
(* controller's workers; passes of one policy are serialized by the queue. *)
(* The watch handlers that map Cluster, Machine and Node events to         *)
(* reconcile requests, and the work queue that fires the requeues, have    *)
(* a specification of their own.                                           *)
EXTENDS Integers, Sequences, FiniteSets, TLC

(***************************************************************************)
(* Bounds of the model.                                                    *)
(***************************************************************************)
\* The clock runs from 0 to MaxTime (minutes).
MaxTime == 2
\* At most MaxInformers node informers are ever started.
MaxInformers == 2

(***************************************************************************)
(* Program constants.                                                      *)
(***************************************************************************)
\* timeoutForMachineToHaveNode := 10 * time.Minute
DefaultNodeStartupTimeout == 10
\* clusterv1.ClusterLabelName
ClusterLabelName == "cluster.x-k8s.io/cluster-name"

(***************************************************************************)
(* The objects of the management cluster.  Two clusters share the name c1  *)
(* and live in different namespaces.                                       *)
(***************************************************************************)
Workers == {"w1", "w2"}

ClusterIds == {"cA", "cB"}
Clusters ==
  [ cA |-> [namespace |-> "ns1", name |-> "c1", uid |-> "uidA"],
    cB |-> [namespace |-> "ns2", name |-> "c1", uid |-> "uidB"] ]

\* The cluster a namespace and a cluster name identify (util.GetClusterByName).
ClusterOf(ns, name) ==
  CHOOSE c \in ClusterIds : Clusters[c].namespace = ns /\ Clusters[c].name = name

\* Spec.NodeStartupTimeout is a pointer: <<>> is nil, <<d>> holds d.
NoTimeout == <<>>
Selector(ml) == [valid |-> TRUE, matchLabels |-> ml]
Worker == {<<"role", "worker">>}

\* The spec of each MachineHealthCheck.  p1 and p2 target the same cluster;
\* p3 targets the cluster of the same name in the other namespace.
PolicyIds == {"p1", "p2", "p3"}
\* An identity with no object behind it in the store.
GonePolicy == "p0"
Requests == PolicyIds \cup {GonePolicy}
PolicySpec ==
  [ p1 |-> [namespace |-> "ns1", clusterName |-> "c1", selector |-> Selector(Worker),
            nodeStartupTimeout |-> NoTimeout,
            unhealthyConditions |-> <<[type |-> "Ready", status |-> "Unknown", timeout |-> 2]>>],
    p2 |-> [namespace |-> "ns1", clusterName |-> "c1", selector |-> Selector({<<"role", "none">>}),
            nodeStartupTimeout |-> <<1>>,
            unhealthyConditions |-> <<>>],
    p3 |-> [namespace |-> "ns2", clusterName |-> "c1", selector |-> Selector(Worker),
            nodeStartupTimeout |-> <<2>>,
            unhealthyConditions |-> <<[type |-> "Ready", status |-> "Unknown", timeout |-> 1]>>] ]

PolicyCluster(p) == ClusterOf(PolicySpec[p].namespace, PolicySpec[p].clusterName)

\* The machines, in the order a list returns them.  mA was created 9 minutes
\* before the clock starts and has no node; mB runs on node nB, mD on nD.
NoNode == "none"
MachineOrder == <<"mA", "mB", "mC", "mD">>
Machines ==
  [ mA |-> [namespace |-> "ns1", clusterName |-> "c1", labels |-> Worker,
            created |-> -9, nodeRef |-> NoNode],
    mB |-> [namespace |-> "ns1", clusterName |-> "c1", labels |-> Worker,
            created |-> 0, nodeRef |-> "nB"],
    mC |-> [namespace |-> "ns2", clusterName |-> "c1", labels |-> Worker,
            created |-> 0, nodeRef |-> NoNode],
    mD |-> [namespace |-> "ns1", clusterName |-> "c1", labels |-> Worker,
            created |-> 0, nodeRef |-> "nD"] ]

\* The Ready condition of the nodes of the target cluster: nB has been
\* Unknown since time 0, nD is ready.
Nodes ==
  [ nB |-> [status |-> "Unknown", lastTransitionTime |-> 0],
    nD |-> [status |-> "True", lastTransitionTime |-> 0] ]

\* The owner reference Reconcile ensures, and what a policy may carry before.
ClusterRef(c) == [kind |-> "Cluster", name |-> Clusters[c].name, uid |-> Clusters[c].uid]
StaleRef == [kind |-> "Cluster", name |-> "c1", uid |-> "uidOld"]
OtherRef == [kind |-> "MachineSet", name |-> "ms", uid |-> "uidMs"]

Nil == <<>>

(***************************************************************************)
(* Pure helpers.                                                           *)
(***************************************************************************)
RECURSIVE SeqMin(_)
SeqMin(s) ==
  IF Len(s) = 1 THEN Head(s)
  ELSE LET r == SeqMin(Tail(s)) IN IF Head(s) < r THEN Head(s) ELSE r

\* kerrors.NewAggregate: the nil errors are dropped; no error left is nil.
\* An error is the sequence of the failures it holds, nil the empty one.
NewAggregate(errlist) ==
  IF errlist = <<>> THEN Nil ELSE
  LET RECURSIVE Flat(_)
      Flat(l) == IF l = <<>> THEN <<>> ELSE Head(l) \o Flat(Tail(l))
  IN Flat(errlist)

\* util.EnsureOwnerRef: the reference to the same object (kind and name) is
\* replaced in place, and appended when there is none.
SameObject(a, b) == a.kind = b.kind /\ a.name = b.name
EnsureOwnerRef(refs, ref) ==
  IF \E i \in 1..Len(refs) : SameObject(refs[i], ref)
  THEN LET i == CHOOSE j \in 1..Len(refs) :
                  SameObject(refs[j], ref) /\ \A k \in 1..(j-1) : ~SameObject(refs[k], ref)
       IN [refs EXCEPT ![i] = ref]
  ELSE Append(refs, ref)

\* m.Labels[key] = value on a label set of <<key, value>> pairs.
SetLabel(labels, key, value) ==
  {kv \in labels : kv[1] # key} \cup {<<key, value>>}

\* Faulty variant: the empty selector is handed to Matches, which matches
\* every label set.
hasMatchingLabels_EmptyMatchesAll(selector, machineLabels) ==
  IF ~selector.valid THEN FALSE
  ELSE IF ~(selector.matchLabels \subseteq machineLabels) THEN FALSE
  ELSE TRUE

\* hasMatchingLabels: an unparseable or an empty selector matches nothing.
hasMatchingLabels(selector, machineLabels) ==
  IF ~selector.valid THEN FALSE
  ELSE IF selector.matchLabels = {} THEN FALSE
  ELSE IF ~(selector.matchLabels \subseteq machineLabels) THEN FALSE
  ELSE TRUE

\* key := types.NamespacedName{Namespace: cluster.Name, Name: cluster.Name}
informerKey(c) == <<Clusters[c].name, Clusters[c].name>>

(***************************************************************************)
(* Target resolution and health evaluation.  A target is a machine with    *)
(* the node it runs on, or NoNode.                                         *)
(***************************************************************************)
\* getTargetsFromMHC: the machines of the policy's namespace its selector
\* matches, each with its node.
getTargetsFromMHC(p) ==
  LET keep(mid) == /\ Machines[mid].namespace = PolicySpec[p].namespace
                   /\ hasMatchingLabels(PolicySpec[p].selector, Machines[mid].labels)
      RECURSIVE Build(_)
      Build(ms) ==
        IF ms = <<>> THEN <<>>
        ELSE (IF keep(Head(ms))
              THEN <<[machine |-> Head(ms), node |-> Machines[Head(ms)].nodeRef]>>
              ELSE <<>>) \o Build(Tail(ms))
  IN Build(MachineOrder)

\* The first unhealthy-condition rule that matches the node's condition, 0 if none.
FirstMatchingRule(rules, cond) ==
  LET hit == {i \in 1..Len(rules) : rules[i].type = "Ready" /\ rules[i].status = cond.status}
  IN IF hit = {} THEN 0 ELSE CHOOSE i \in hit : \A j \in hit : i <= j

\* The verdict on one target at time t: healthy, unhealthy, or pending with
\* the time remaining until it can be decided.
needsRemediation(target, p, timeoutForMachineToHaveNode, nodeState, t) ==
  IF target.node = NoNode
  THEN LET age == t - Machines[target.machine].created
       IN IF age >= timeoutForMachineToHaveNode
          THEN [verdict |-> "unhealthy", nextCheck |-> 0]
          ELSE [verdict |-> "pending", nextCheck |-> timeoutForMachineToHaveNode - age]
  ELSE LET cond  == nodeState[target.node]
           rules == PolicySpec[p].unhealthyConditions
           r     == FirstMatchingRule(rules, cond)
       IN IF r = 0 THEN [verdict |-> "healthy", nextCheck |-> 0]
          ELSE LET elapsed == t - cond.lastTransitionTime
               IN IF elapsed >= rules[r].timeout
                  THEN [verdict |-> "unhealthy", nextCheck |-> 0]
                  ELSE [verdict |-> "pending", nextCheck |-> rules[r].timeout - elapsed]

\* healthCheckTargets: the number of healthy targets, the targets that need
\* remediation, and the next-check times of the targets not yet decidable.
healthCheckTargets(targets, p, timeoutForMachineToHaveNode, nodeState, t) ==
  LET v(i) == needsRemediation(targets[i], p, timeoutForMachineToHaveNode, nodeState, t)
      RECURSIVE Pick(_, _)
      Pick(i, verdict) ==
        IF i > Len(targets) THEN <<>>
        ELSE (IF v(i).verdict = verdict THEN <<i>> ELSE <<>>) \o Pick(i + 1, verdict)
      pending   == Pick(1, "pending")
      unhealthy == Pick(1, "unhealthy")
  IN [ currentHealthy         |-> Len(Pick(1, "healthy")),
       needRemediationTargets |-> [k \in 1..Len(unhealthy) |-> targets[unhealthy[k]]],
       nextCheckTimes         |-> [k \in 1..Len(pending) |-> v(pending[k]).nextCheck] ]

\* minDuration: the smallest of the durations, 0 when there is none.
minDuration(durations) ==
  IF Len(durations) = 0 THEN 0 ELSE SeqMin(durations)

(***************************************************************************)
(* The code of Reconcile and reconcile on the in-memory object m.          *)
(***************************************************************************)
\* Reconcile labels: m.Labels[clusterv1.ClusterLabelName] = m.Spec.ClusterName
reconcileLabels(obj, p) ==
  [obj EXCEPT !.labels = SetLabel(@, ClusterLabelName, PolicySpec[p].clusterName)]

\* Faulty variants: the owner reference is not set; it is appended without
\* a look at the references the object already has.
reconcileOwnerRef_Skipped(obj, c) == obj
reconcileOwnerRef_Appended(obj, c) ==
  [obj EXCEPT !.ownerReferences = Append(@, ClusterRef(c))]

\* Ensure the MachineHealthCheck is owned by the Cluster it belongs to.
reconcileOwnerRef(obj, c) ==
  [obj EXCEPT !.ownerReferences = EnsureOwnerRef(@, ClusterRef(c))]

\* Faulty variant: Spec.NodeStartupTimeout is not looked at.
timeoutForMachineToHaveNode_AlwaysDefault(p) == DefaultNodeStartupTimeout

\* timeoutForMachineToHaveNode: 10 minutes unless the policy sets it.
timeoutForMachineToHaveNode(p) ==
  IF PolicySpec[p].nodeStartupTimeout # NoTimeout
  THEN PolicySpec[p].nodeStartupTimeout[1]
  ELSE DefaultNodeStartupTimeout

\* Faulty variant: CurrentHealthy is set from the number of targets.
reconcileStatus_HealthyFromTotal(obj, tgts, ev) ==
  [obj EXCEPT !.status = [expectedMachines |-> Len(tgts), currentHealthy |-> Len(tgts)]]

\* m.Status.ExpectedMachines and m.Status.CurrentHealthy (the counts of a
\* list of machines are far below the int32 range).
reconcileStatus(obj, tgts, ev) ==
  [obj EXCEPT !.status = [expectedMachines |-> Len(tgts),
                          currentHealthy   |-> ev.currentHealthy]]

\* Faulty variant: the result never asks for a requeue.
requeueAfter_Never(nextCheckTimes) == 0

\* The RequeueAfter of the result: minDuration(nextCheckTimes) when positive.
requeueAfter(nextCheckTimes) ==
  LET minNextCheck == minDuration(nextCheckTimes)
  IN IF minNextCheck > 0 THEN minNextCheck ELSE 0

\* Faulty variant: the patch error overwrites the error of the pass.
deferredReterr_Overwritten(reterr, err) ==
  IF err # Nil THEN err ELSE reterr

\* The deferred patch merges its error with the one the pass returns.
deferredReterr(reterr, err) ==
  IF err # Nil THEN NewAggregate(<<reterr, err>>) ELSE reterr

\* Faulty variant: the patch is not deferred, and a return statement skips it.
runsDeferred_Never(deferRegistered) == FALSE

\* Whether a return statement runs the deferred patch: it does once the
\* defer statement of line 144 has been executed.
runsDeferred(deferRegistered) == deferRegistered

\* patchHelper.Patch: the fields that differ from the object read at the
\* start of the pass are written to the stored object.
Patch(stored, before, obj) ==
  [ labels          |-> IF obj.labels # before.labels THEN obj.labels ELSE stored.labels,
    ownerReferences |-> IF obj.ownerReferences # before.ownerReferences
                        THEN obj.ownerReferences ELSE stored.ownerReferences,
    status          |-> IF obj.status # before.status THEN obj.status ELSE stored.status ]


(***************************************************************************)
(* The watch handlers, lines 230-350 and 390-402: the functions that map   *)
(* an event on a Cluster, a Machine or a Node to reconcile requests.  They *)
(* list from the store of the management cluster: the policies, and the    *)
(* machines with the labels and the node reference they carry now.         *)
(***************************************************************************)
\* The policies the handlers list, in list order: the three reconciled
\* above, one with an empty selector and one whose selector does not parse.
RoutingPolicyOrder == <<"p1", "p2", "p3", "pEmpty", "pBad">>
RoutingPolicySpec ==
  PolicySpec @@
  [ pEmpty |-> [namespace |-> "ns1", clusterName |-> "c1", selector |-> Selector({})],
    pBad   |-> [namespace |-> "ns1", clusterName |-> "c1",
                selector |-> [valid |-> FALSE, matchLabels |-> Worker]] ]

\* The node names: each cluster names its own nodes, so both clusters may
\* have a node nB and a node nD.
NodeNames == {"nB", "nD"}
LabelSets == {Worker, {<<"role", "none">>}}

\* The machine mid as the store holds it.
MachineObject(store, mid) ==
  [ name |-> mid, namespace |-> Machines[mid].namespace,
    clusterName |-> Machines[mid].clusterName,
    labels |-> store.labels[mid], nodeRef |-> store.node[mid] ]

\* indexMachineHealthCheckByClusterName: []string{mhc.Spec.ClusterName}
indexMachineHealthCheckByClusterName(p) == <<RoutingPolicySpec[p].clusterName>>

\* indexMachineByNodeName: the name of Status.NodeRef, nothing when it is nil.
indexMachineByNodeName(machine) ==
  IF machine.nodeRef # NoNode THEN <<machine.nodeRef>> ELSE <<>>

\* r.Client.List of the MachineHealthChecks of a namespace whose cluster-name
\* index holds clusterName.
ListMachineHealthChecks(ns, clusterName) ==
  LET Listed(p) == /\ RoutingPolicySpec[p].namespace = ns
                   /\ clusterName \in
                        {indexMachineHealthCheckByClusterName(p)[i] :
                           i \in 1..Len(indexMachineHealthCheckByClusterName(p))}
  IN SelectSeq(RoutingPolicyOrder, Listed)

\* Lines 242-267: every policy of the cluster's namespace indexed under the
\* cluster's name; nothing when the list fails.
clusterToMachineHealthCheck(c, listFails) ==
  IF listFails THEN <<>>
  ELSE ListMachineHealthChecks(Clusters[c].namespace, Clusters[c].name)

\* Lines 275-301: the policies of the machine's namespace and cluster whose
\* selector matches the machine's labels.
machineToMachineHealthCheck(machine, listFails) ==
  IF listFails THEN <<>>
  ELSE LET Matching(p) == hasMatchingLabels(RoutingPolicySpec[p].selector, machine.labels)
       IN SelectSeq(ListMachineHealthChecks(machine.namespace, machine.clusterName), Matching)

\* Faulty variant: the first machine of the list is taken whatever the
\* length of the list.
getMachineFromNode_First(store, nodeName, listFails) ==
  LET Indexed(mid) == nodeName \in
        {indexMachineByNodeName(MachineObject(store, mid))[i] :
           i \in 1..Len(indexMachineByNodeName(MachineObject(store, mid)))}
      items == SelectSeq(MachineOrder, Indexed)
  IN IF listFails THEN [machine |-> Nil, err |-> <<"list">>]
     ELSE IF Len(items) = 0 THEN [machine |-> Nil, err |-> <<"count">>]
     ELSE [machine |-> <<MachineObject(store, items[1])>>, err |-> Nil]

\* Lines 337-350: the machines indexed under the node name, in every
\* namespace and of every cluster (the list has no other option than the
\* index); an error unless there is exactly one.  The machine is a pointer:
\* <<>> is nil, <<m>> holds m.
getMachineFromNode(store, nodeName, listFails) ==
  LET Indexed(mid) == nodeName \in
        {indexMachineByNodeName(MachineObject(store, mid))[i] :
           i \in 1..Len(indexMachineByNodeName(MachineObject(store, mid)))}
      items == SelectSeq(MachineOrder, Indexed)
  IN IF listFails THEN [machine |-> Nil, err |-> <<"list">>]
     ELSE IF Len(items) # 1 THEN [machine |-> Nil, err |-> <<"count">>]
     ELSE [machine |-> <<MachineObject(store, items[1])>>, err |-> Nil]

\* Lines 303-335: the machine of the node, then the policies of that
\* machine's namespace and cluster whose selector matches its labels.
\* fails names the list that fails: "machines", "mhcs" or "none".
nodeToMachineHealthCheck(store, nodeName, fails) ==
  LET got == getMachineFromNode(store, nodeName, fails = "machines") IN
  IF got.machine = Nil \/ got.err # Nil THEN <<>>
  ELSE IF fails = "mhcs" THEN <<>>
  ELSE LET machine == got.machine[1]
           Matching(p) == hasMatchingLabels(RoutingPolicySpec[p].selector, machine.labels)
       IN SelectSeq(ListMachineHealthChecks(machine.namespace, machine.clusterName), Matching)

NoEvent == [kind |-> "none", cluster |-> "", name |-> "", fails |-> "none"]
RoutingInit ==
  [ node     |-> [mid \in DOMAIN Machines |-> Machines[mid].nodeRef],
    labels   |-> [mid \in DOMAIN Machines |-> Machines[mid].labels],
    event    |-> NoEvent,
    requests |-> <<>> ]

(***************************************************************************)
(* State.                                                                  *)
(***************************************************************************)
VARIABLES
  mhc,                   \* the stored MachineHealthCheck objects
  paused,                \* the clusters and policies flagged paused
  now,                   \* the clock
  clusterNodeInformers,  \* r.clusterNodeInformers: key -> informer
  informers,             \* the node informers started (go nodeInformer.Run)
  crashed,               \* the process died of a fatal runtime error
  pass,                  \* each worker's Reconcile pass
  requeueAt,             \* the work queue: when each policy is due again
  routing,               \* the watch handlers: the store they list, the
                         \* last event mapped and the requests it produced
  changed                \* the policies and clusters whose update event
                         \* awaits its handler

vars == <<mhc, paused, now, clusterNodeInformers, informers, crashed, pass,
          requeueAt, routing, changed>>

NoObj == [labels |-> {}, ownerReferences |-> <<>>,
          status |-> [expectedMachines |-> 0, currentHealthy |-> 0]]
NoEval == [currentHealthy |-> 0, needRemediationTargets |-> <<>>, nextCheckTimes |-> <<>>]

\* A worker between two passes.  events counts the events the pass has
\* handed to r.recorder.
Idle ==
  [ pc |-> "idle", req |-> "", m |-> NoObj, before |-> NoObj, reterr |-> Nil,
    result |-> 0, inf |-> 0, targets |-> <<>>, eval |-> NoEval,
    patches |-> 0, patchErr |-> Nil, path |-> "", events |-> 0 ]

Pausable == {"cA", "p3"}

Init ==
  /\ mhc = [ p1 |-> NoObj,
             p2 |-> [NoObj EXCEPT !.labels = {<<ClusterLabelName, "old">>},
                                  !.ownerReferences = <<StaleRef>>],
             p3 |-> [NoObj EXCEPT !.labels = {<<"app", "x">>},
                                  !.ownerReferences = <<OtherRef>>] ]
  /\ paused = {}
  /\ now = 0
  /\ clusterNodeInformers = <<>>
  /\ informers = <<>>
  /\ crashed = FALSE
  /\ pass = [w \in Workers |-> Idle]
  /\ requeueAt = [p \in PolicyIds |-> <<0>>]
  /\ routing = RoutingInit
  /\ changed = {}

\* util.IsPaused(cluster, m)
IsPaused(c, p) == c \in paused \/ p \in paused

\* Another worker is about to read or write the registry map: the two
\* accesses are unsynchronized.
Racing(w, pcs) == \E o \in Workers \ {w} : pass[o].pc \in pcs

\* The controller is built For(&clusterv1.MachineHealthCheck{}) with no
\* predicate (lines 66-67): every write of a pass to a stored policy (the
\* Patch of line 146) is an update event of that policy.
UpdateEvents ==
  changed' = changed \cup {p \in PolicyIds : mhc'[p] # mhc[p]}

\* A return statement of Reconcile taken by worker w with pass record rec:
\* the deferred function, when registered, patches the object and merges
\* its error into reterr; then Reconcile has returned (result, reterr).
ReturnFrom(w, rec, deferRegistered) ==
  IF runsDeferred(deferRegistered)
  THEN \E err \in {Nil, <<"patch">>} :
         /\ mhc' = IF err = Nil
                   THEN [mhc EXCEPT ![rec.req] = Patch(@, rec.before, rec.m)]
                   ELSE mhc
         /\ pass' = [pass EXCEPT ![w] =
              [rec EXCEPT !.pc = "done", !.patches = @ + 1, !.patchErr = err,
                          !.reterr = deferredReterr(@, err)]]
  ELSE /\ mhc' = mhc
       /\ pass' = [pass EXCEPT ![w] = [rec EXCEPT !.pc = "done"]]

\* Faulty variant: a policy that is not found is reported as an error.
reterrOfGet_NotFoundIsError(notFound) == <<"get">>

\* Lines 112-122: the error of r.Get is returned unless it says the policy
\* was not found.
reterrOfGet(notFound) == IF notFound THEN Nil ELSE <<"get">>

\* Faulty variant: the defer statement comes before the pause check.
deferRegisteredAt_BeforePause(path) == path \notin {"notFound", "getErr", "clusterErr"}

\* Line 144: the defer statement comes after the returns of the fetches, of
\* the pause check and of the patch helper.
deferRegisteredAt(path) ==
  path \notin {"notFound", "getErr", "clusterErr", "paused", "helperErr"}

(***************************************************************************)
(* Reconcile, lines 106-186: the fetches, the early returns, the defer     *)
(* statement, the labels, the owner reference and the cluster client.      *)
(***************************************************************************)
Reconcile(w, p) ==
  /\ ~crashed
  /\ pass[w].pc = "idle"
  /\ \A o \in Workers : pass[o].req # p
  /\ \E outcome \in {"notFound", "getErr", "clusterErr", "paused", "helperErr",
                     "clientErr", "proceed"} :
       LET c  == PolicyCluster(p)
           m1 == reconcileOwnerRef(reconcileLabels(mhc[p], p), c)
           early(path, err) == [Idle EXCEPT !.req = p, !.path = path, !.reterr = err]
           begun == [Idle EXCEPT !.req = p, !.before = mhc[p], !.m = m1]
       IN
       /\ (outcome = "notFound") => (p = GonePolicy)
       /\ (p = GonePolicy) => (outcome \in {"notFound", "getErr"})
       /\ (outcome = "paused") => IsPaused(c, p)
       /\ (outcome \in {"helperErr", "clientErr", "proceed"}) => ~IsPaused(c, p)
       /\ CASE outcome = "notFound"   -> ReturnFrom(w, early("notFound", reterrOfGet(TRUE)),
                                                   deferRegisteredAt("notFound"))
            [] outcome = "getErr"     -> ReturnFrom(w, early("getErr", reterrOfGet(FALSE)),
                                                   deferRegisteredAt("getErr"))
            [] outcome = "clusterErr" -> ReturnFrom(w, early("clusterErr", <<"cluster">>),
                                                   deferRegisteredAt("clusterErr"))
            [] outcome = "paused"     -> ReturnFrom(w, early("paused", Nil),
                                                   deferRegisteredAt("paused"))
            [] outcome = "helperErr"  -> ReturnFrom(w, early("helperErr", <<"helper">>),
                                                   deferRegisteredAt("helperErr"))
            [] outcome = "clientErr"  ->
                 ReturnFrom(w, [begun EXCEPT !.path = "reconcileErr", !.reterr = <<"client">>,
                                            !.events = 1],
                            deferRegisteredAt("reconcileErr"))
            [] OTHER ->
                 /\ pass' = [pass EXCEPT ![w] = [begun EXCEPT !.pc = "watch"]]
                 /\ mhc' = mhc
  /\ UNCHANGED <<paused, now, clusterNodeInformers, informers, crashed,
               requeueAt, routing>>
  /\ UpdateEvents

(***************************************************************************)
(* watchClusterNodes.                                                      *)
(***************************************************************************)
\* if _, ok := r.clusterNodeInformers[key]; ok
watchAlreadySetUp(c) == informerKey(c) \in DOMAIN clusterNodeInformers

\* reconcile returns the error of watchClusterNodes, Reconcile returns it.
WatchFailed(w, err) ==
  ReturnFrom(w, [pass[w] EXCEPT !.path = "reconcileErr", !.reterr = err, !.events = 1], TRUE)

\* Lines 353-367: the lookup in the registry, then the remote configuration
\* and the remote client.
WatchLookup(w) ==
  /\ ~crashed
  /\ pass[w].pc = "watch"
  /\ LET c == PolicyCluster(pass[w].req) IN
     \/ /\ watchAlreadySetUp(c)
        /\ pass' = [pass EXCEPT ![w].pc = "targets"]
        /\ UNCHANGED <<mhc, crashed>>
     \/ /\ ~watchAlreadySetUp(c)
        /\ \/ pass' = [pass EXCEPT ![w].pc = "start"] /\ mhc' = mhc
           \/ \E err \in {<<"config">>, <<"k8sClient">>} : WatchFailed(w, err)
        /\ UNCHANGED crashed
     \/ \* a map read concurrent with a map write: the runtime may throw
        /\ Racing(w, {"insert"})
        /\ crashed' = TRUE
        /\ UNCHANGED <<mhc, pass>>
  /\ UNCHANGED <<paused, now, clusterNodeInformers, informers,
               requeueAt, routing>>
  /\ UpdateEvents

\* Faulty variant: the informer is recorded in the registry before the error of
\* controller.Watch is looked at.
WatchStart_InsertedFirst(w) ==
  /\ ~crashed
  /\ pass[w].pc = "start"
  /\ Len(informers) < MaxInformers
  /\ \/ /\ informers' = Append(informers, [cluster |-> PolicyCluster(pass[w].req),
                                           watched |-> TRUE])
        /\ pass' = [pass EXCEPT ![w].pc = "insert", ![w].inf = Len(informers) + 1]
        /\ mhc' = mhc
        /\ UNCHANGED clusterNodeInformers
     \/ /\ informers' = Append(informers, [cluster |-> PolicyCluster(pass[w].req),
                                           watched |-> FALSE])
        /\ clusterNodeInformers' =
             (informerKey(PolicyCluster(pass[w].req)) :> (Len(informers) + 1))
               @@ clusterNodeInformers
        /\ pass' = [pass EXCEPT ![w] = [pass[w] EXCEPT !.pc = "done", !.patches = 1,
                                          !.path = "reconcileErr", !.reterr = <<"watch">>,
                                          !.events = 1]]
        /\ mhc' = [mhc EXCEPT ![pass[w].req] = Patch(@, pass[w].before, pass[w].m)]
  /\ UNCHANGED <<paused, now, crashed,
               requeueAt, routing>>
  /\ UpdateEvents

\* Lines 370-380: the informer is started in the background and registered
\* with the controller.
WatchStart(w) ==
  /\ ~crashed
  /\ pass[w].pc = "start"
  /\ Len(informers) < MaxInformers
  /\ \/ /\ informers' = Append(informers, [cluster |-> PolicyCluster(pass[w].req),
                                           watched |-> TRUE])
        /\ pass' = [pass EXCEPT ![w].pc = "insert", ![w].inf = Len(informers) + 1]
        /\ mhc' = mhc
     \/ /\ informers' = Append(informers, [cluster |-> PolicyCluster(pass[w].req),
                                           watched |-> FALSE])
        /\ WatchFailed(w, <<"watch">>)
  /\ UNCHANGED <<paused, now, clusterNodeInformers, crashed,
               requeueAt, routing>>
  /\ UpdateEvents

\* Lines 382-387: r.clusterNodeInformers[key] = nodeInformer
WatchInsert(w) ==
  /\ ~crashed
  /\ pass[w].pc = "insert"
  /\ \/ /\ clusterNodeInformers' =
             (informerKey(PolicyCluster(pass[w].req)) :> pass[w].inf) @@ clusterNodeInformers
        /\ pass' = [pass EXCEPT ![w].pc = "targets", ![w].inf = 0]
        /\ UNCHANGED crashed
     \/ \* a map write concurrent with a map read or write: the runtime may throw
        /\ Racing(w, {"watch", "insert"})
        /\ crashed' = TRUE
        /\ UNCHANGED <<pass, clusterNodeInformers>>
  /\ UNCHANGED <<mhc, paused, now, informers,
               requeueAt, routing>>
  /\ UNCHANGED changed

(***************************************************************************)
(* reconcile, lines 194-227: the targets, the status and the requeue.      *)
(***************************************************************************)
ResolveTargets(w) ==
  /\ ~crashed
  /\ pass[w].pc = "targets"
  /\ LET p    == pass[w].req
         tgts == getTargetsFromMHC(p)
         ev   == healthCheckTargets(tgts, p, timeoutForMachineToHaveNode(p), Nodes, now)
     IN
     \/ ReturnFrom(w, [pass[w] EXCEPT !.path = "reconcileErr", !.reterr = <<"targets">>,
                                      !.events = 1], TRUE)
     \/ ReturnFrom(w, [pass[w] EXCEPT !.path = "ok", !.targets = tgts, !.eval = ev,
                                      !.m = reconcileStatus(@, tgts, ev),
                                      !.result = requeueAfter(ev.nextCheckTimes)], TRUE)
  /\ UNCHANGED <<paused, now, clusterNodeInformers, informers, crashed,
               requeueAt, routing>>
  /\ UpdateEvents

\* The worker takes the next request.
NextRequest(w) ==
  /\ ~crashed
  /\ pass[w].pc = "done"
  /\ pass' = [pass EXCEPT ![w] = Idle]
  /\ UNCHANGED <<mhc, paused, now, clusterNodeInformers, informers, crashed,
               requeueAt, routing>>
  /\ UNCHANGED changed

(***************************************************************************)
(* The environment: the clock and the operators.                           *)
(***************************************************************************)
Tick ==
  /\ now < MaxTime
  /\ now' = now + 1
  /\ UNCHANGED <<mhc, paused, clusterNodeInformers, informers, crashed, pass,
               requeueAt, routing>>
  /\ UNCHANGED changed

SetPaused(o) ==
  /\ paused' = IF o \in paused THEN paused \ {o} ELSE paused \cup {o}
  /\ UNCHANGED <<mhc, now, clusterNodeInformers, informers, crashed, pass,
               requeueAt, routing>>
  /\ UNCHANGED changed

\* One step of worker w.
Step(w) ==
  \/ \E p \in Requests : Reconcile(w, p)
  \/ WatchLookup(w)
  \/ WatchStart(w)
  \/ WatchInsert(w)
  \/ ResolveTargets(w)
  \/ NextRequest(w)

\* One worker (MaxConcurrentReconciles = 1) in a changing environment.
Next ==
  \/ Step("w1")
  \/ Tick
  \/ \E o \in Pausable : SetPaused(o)

Spec == Init /\ [][Next]_vars

\* Two workers reconciling concurrently, the environment at rest.
NextConcurrent == \E w \in Workers : Step(w)

SpecConcurrent == Init /\ [][NextConcurrent]_vars

(***************************************************************************)
(* The work queue.  The controller hands Reconcile's return to its queue:  *)
(* an error is retried, a positive RequeueAfter is scheduled, anything     *)
(* else is forgotten.  The clock stops at MaxTime, which stands for every  *)
(* later time, so a delay that ends later is due at MaxTime.  An entry of  *)
(* requeueAt is <<>> (not queued), <<t>> (due from time t on; a policy     *)
(* queued without a delay is entered as <<0>>, due at once) or             *)
(* <<0, "event">> (an event queued the policy again while a pass for it    *)
(* was running).                                                           *)
(***************************************************************************)
Due(p) == requeueAt[p] # <<>> /\ requeueAt[p][1] <= now

\* A step of a pass in which nothing fails.
Unfailed(w) == pass'[w].reterr = Nil

\* The worker takes a policy that is due and runs Reconcile for it: the
\* pass goes on to the node watch, or returns at once because the Cluster
\* or the policy is paused.
Dequeue(w, p) ==
  /\ Due(p)
  /\ Reconcile(w, p)
  /\ Unfailed(w)

\* The pause flag of a Cluster or of a policy changes: the object is
\* updated in the store and its update event awaits its handler.
PauseEvent(o) ==
  /\ paused' = IF o \in paused THEN paused \ {o} ELSE paused \cup {o}
  /\ changed' = changed \cup {o}
  /\ UNCHANGED <<mhc, now, clusterNodeInformers, informers, crashed, pass, requeueAt,
                 routing>>

\* The requests the update event of o is mapped to: the policy itself
\* (For(&clusterv1.MachineHealthCheck{}), line 67), or what
\* clusterToMachineHealthCheck returns for the Cluster (lines 68-71), which
\* is nothing when its list fails.
QueuedByChangeOf(o, listFails) ==
  IF o \in ClusterIds
  THEN {clusterToMachineHealthCheck(o, listFails)[i] :
          i \in 1..Len(clusterToMachineHealthCheck(o, listFails))}
  ELSE {o}

\* The queue takes the requests a handler returned: a policy under
\* reconciliation is marked to be queued again, a policy scheduled for
\* later becomes due now.  The queue holds the three policies whose
\* passes are modelled; a request for another policy of the handlers'
\* list is left out.
Enqueue(requests) ==
  requeueAt' =
    [p \in PolicyIds |->
       IF p \notin requests THEN requeueAt[p]
       ELSE IF \E w \in Workers : pass[w].req = p THEN <<0, "event">>
       ELSE <<0>>]

\* The handler of the update event of o runs.
HandleEvent(o, listFails) ==
  /\ o \in changed
  /\ listFails => o \in ClusterIds
  /\ changed' = changed \ {o}
  /\ Enqueue(QueuedByChangeOf(o, listFails))
  /\ UNCHANGED <<mhc, paused, now, clusterNodeInformers, informers, crashed, pass,
                 routing>>

\* An event of the Machine mid arrives (lines 72-75: a change of a field
\* the pass does not read, or a resync) and machineToMachineHealthCheck
\* maps it to requests.
HandleMachineEvent(mid, listFails) ==
  /\ Enqueue({machineToMachineHealthCheck(MachineObject(routing, mid), listFails)[i] :
               i \in 1..Len(machineToMachineHealthCheck(MachineObject(routing, mid),
                                                        listFails))})
  /\ UNCHANGED <<mhc, paused, now, clusterNodeInformers, informers, crashed, pass,
                 routing, changed>>

\* An event of the node n arrives on a node informer the controller
\* watches (lines 374-377) and nodeToMachineHealthCheck maps it to requests.
HandleNodeEvent(n, fails) ==
  /\ \E i \in 1..Len(informers) : informers[i].watched
  /\ Enqueue({nodeToMachineHealthCheck(routing, n, fails)[i] :
               i \in 1..Len(nodeToMachineHealthCheck(routing, n, fails))})
  /\ UNCHANGED <<mhc, paused, now, clusterNodeInformers, informers, crashed, pass,
                 routing, changed>>

\* The controller reads (result, reterr) and schedules the policy.
HandleResult(w) ==
  /\ ~crashed
  /\ pass[w].pc = "done"
  /\ requeueAt' =
       [requeueAt EXCEPT ![pass[w].req] =
          IF Len(@) = 2 THEN <<0>>
          ELSE IF pass[w].reterr # Nil THEN <<0>>
          ELSE IF pass[w].result > 0
               THEN <<IF now + pass[w].result < MaxTime THEN now + pass[w].result
                      ELSE MaxTime>>
               ELSE <<>>]
  /\ pass' = [pass EXCEPT ![w] = Idle]
  /\ UNCHANGED <<mhc, paused, now, clusterNodeInformers, informers, crashed, routing,
                 changed>>

\* One worker driven by the queue, no pass failing, while the clock runs,
\* the operators pause and unpause, and the events of the watched objects
\* arrive.
NextRequeue ==
  \/ \E p \in PolicyIds : Dequeue("w1", p)
  \/ WatchLookup("w1") /\ Unfailed("w1")
  \/ WatchStart("w1") /\ Unfailed("w1")
  \/ WatchInsert("w1") /\ Unfailed("w1")
  \/ ResolveTargets("w1") /\ Unfailed("w1")
  \/ HandleResult("w1")
  \/ Tick
  \/ \E o \in Pausable : PauseEvent(o)
  \/ \E o \in ClusterIds \cup PolicyIds, listFails \in BOOLEAN : HandleEvent(o, listFails)
  \/ \E mid \in DOMAIN Machines, listFails \in BOOLEAN : HandleMachineEvent(mid, listFails)
  \/ \E n \in NodeNames, fails \in {"none", "machines", "mhcs"} : HandleNodeEvent(n, fails)

\* Time passes, a pass that has begun takes its next step, and a policy
\* that is due is taken from the queue.  The events are under no fairness:
\* the operators may pause, unpause or leave things as they are, and a
\* handler may run as late as it likes.
SpecRequeue ==
  /\ Init
  /\ [][NextRequeue]_vars
  /\ WF_vars(Tick)
  /\ WF_vars(\/ WatchLookup("w1")
             \/ WatchStart("w1")
             \/ WatchInsert("w1")
             \/ ResolveTargets("w1")
             \/ HandleResult("w1"))
  /\ \A p \in PolicyIds : SF_vars(Dequeue("w1", p))

(***************************************************************************)
(* The events.  The store changes as machines get, change and lose their   *)
(* node and their labels; every event on a Cluster, a Machine or a Node    *)
(* is mapped to requests by its handler.  A node event comes from the node *)
(* informer of one cluster and carries the node alone.                     *)
(***************************************************************************)
RoutingFrame ==
  UNCHANGED <<mhc, paused, now, clusterNodeInformers, informers, crashed, pass, requeueAt,
              changed>>

SetNodeRef(mid, n) ==
  /\ routing.node[mid] # n
  /\ routing' = [routing EXCEPT !.node[mid] = n, !.event = NoEvent, !.requests = <<>>]
  /\ RoutingFrame

SetMachineLabels(mid, ls) ==
  /\ routing.labels[mid] # ls
  /\ routing' = [routing EXCEPT !.labels[mid] = ls, !.event = NoEvent, !.requests = <<>>]
  /\ RoutingFrame

ClusterEvent(c, listFails) ==
  /\ routing' = [routing EXCEPT
       !.event = [kind |-> "cluster", cluster |-> c, name |-> c,
                  fails |-> IF listFails THEN "mhcs" ELSE "none"],
       !.requests = clusterToMachineHealthCheck(c, listFails)]
  /\ RoutingFrame

MachineEvent(mid, listFails) ==
  /\ routing' = [routing EXCEPT
       !.event = [kind |-> "machine",
                  cluster |-> ClusterOf(Machines[mid].namespace, Machines[mid].clusterName),
                  name |-> mid, fails |-> IF listFails THEN "mhcs" ELSE "none"],
       !.requests = machineToMachineHealthCheck(MachineObject(routing, mid), listFails)]
  /\ RoutingFrame

NodeEvent(c, n, fails) ==
  /\ routing' = [routing EXCEPT
       !.event = [kind |-> "node", cluster |-> c, name |-> n, fails |-> fails],
       !.requests = nodeToMachineHealthCheck(routing, n, fails)]
  /\ RoutingFrame

NextRouting ==
  \/ \E mid \in DOMAIN Machines, n \in NodeNames \cup {NoNode} : SetNodeRef(mid, n)
  \/ \E mid \in DOMAIN Machines, ls \in LabelSets : SetMachineLabels(mid, ls)
  \/ \E c \in ClusterIds, listFails \in BOOLEAN : ClusterEvent(c, listFails)
  \/ \E mid \in DOMAIN Machines, listFails \in BOOLEAN : MachineEvent(mid, listFails)
  \/ \E c \in ClusterIds, n \in NodeNames, fails \in {"none", "machines", "mhcs"} :
       NodeEvent(c, n, fails)

SpecRouting == Init /\ [][NextRouting]_vars

(***************************************************************************)
(* Properties.                                                             *)
(***************************************************************************)
Range(seq) == {seq[i] : i \in 1..Len(seq)}
Done(w) == pass[w].pc = "done"
\* The informers started for cluster c and registered with the controller.
WatchesOf(c) == {i \in 1..Len(informers) : informers[i].cluster = c /\ informers[i].watched}
\* The errors the body of the pass (reconcile) returns.
BodyErrors == {"client", "config", "k8sClient", "watch", "targets"}
HasClusterOwnerRef(obj, c) == ClusterRef(c) \in Range(obj.ownerReferences)

\* C1: concurrent passes for the same cluster start exactly one node watch:
\* no cluster ever has two informers running and registered.
C1_OneWatchPerCluster ==
  \A c \in ClusterIds : Cardinality(WatchesOf(c)) <= 1

\* C2: when watchClusterNodes has returned success for a cluster (the pass is
\* about to resolve targets), a node watch connected to that same cluster
\* has been started, also when another cluster has the same name.
C2_WatchPerCluster ==
  \A w \in Workers :
    pass[w].pc = "targets" => WatchesOf(PolicyCluster(pass[w].req)) # {}

\* C3 as stated: every pass for an existing policy, the early returns
\* (cluster fetch failure, paused, patch helper failure) included, executes
\* the patch exactly once.
C3_PatchOnEveryReturn ==
  \A w \in Workers :
    (Done(w) /\ pass[w].path \in {"clusterErr", "paused", "helperErr", "reconcileErr", "ok"})
      => pass[w].patches = 1

\* C3 as amended: a pass that got past the construction of the patch helper
\* executes the patch exactly once, as its last step, whether the body
\* succeeded or failed; a pass that returns before executes no patch.
C3_PatchOnceAfterDefer ==
  \A w \in Workers :
    /\ (Done(w) /\ pass[w].path \in {"reconcileErr", "ok"}) => pass[w].patches = 1
    /\ (Done(w) /\ pass[w].path \in {"notFound", "getErr", "clusterErr", "paused", "helperErr"})
         => pass[w].patches = 0
    /\ ~Done(w) => pass[w].patches = 0

\* C3 witness: a pass whose body failed has returned, and has patched once.
C3_Witness ==
  \E w \in Workers : Done(w) /\ pass[w].path = "reconcileErr" /\ pass[w].patches = 1

\* C4: when the final patch fails, the error Reconcile returns holds the
\* patch error and the error of the body, if there was one; a patch failure
\* after a successful body makes the pass fail.
C4_PatchErrorMerged ==
  \A w \in Workers :
    Done(w) =>
      /\ pass[w].patchErr # Nil =>
           /\ pass[w].reterr # Nil
           /\ "patch" \in Range(pass[w].reterr)
           /\ pass[w].path = "reconcileErr" => Range(pass[w].reterr) \cap BodyErrors # {}
      /\ pass[w].path = "reconcileErr" => Range(pass[w].reterr) \cap BodyErrors # {}

\* C4 witness: the body failed and then the patch failed.
C4_Witness ==
  \E w \in Workers :
    Done(w) /\ pass[w].path = "reconcileErr" /\ pass[w].patchErr # Nil /\ Len(pass[w].reterr) = 2

\* C5: targets are resolved only when the registry holds a node watch for
\* the cluster of the pass.
C5_WatchBeforeTargets ==
  \A w \in Workers :
    pass[w].pc = "targets" =>
      \E k \in DOMAIN clusterNodeInformers :
        informers[clusterNodeInformers[k]].cluster = PolicyCluster(pass[w].req)

\* C6: a step of watchClusterNodes that fails (remote configuration, remote
\* client, registration of the watch) returns the error and leaves the
\* registry as it was.
C6_FailedWatchLeavesRegistry ==
  [][\A w \in Workers :
       (pass[w].pc \in {"watch", "start"} /\ pass'[w].pc = "done") =>
         /\ clusterNodeInformers' = clusterNodeInformers
         /\ pass'[w].reterr # Nil
         /\ Head(pass'[w].reterr) \in {"config", "k8sClient", "watch"}]_vars

\* C6 witness: registering the watch failed and the cluster has no entry.
C6_Witness ==
  \E w \in Workers :
    /\ Done(w) /\ pass[w].reterr # Nil /\ Head(pass[w].reterr) = "watch"
    /\ informerKey(PolicyCluster(pass[w].req)) \notin DOMAIN clusterNodeInformers

ClusterLabels(obj) == {kv[2] : kv \in {x \in obj.labels : x[1] = ClusterLabelName}}
ClusterRefs(obj, c) ==
  {i \in 1..Len(obj.ownerReferences) : SameObject(obj.ownerReferences[i], ClusterRef(c))}
\* The object a pass persists from obj when it resolves tgts and evaluates ev.
PassOutcome(obj, p, tgts, ev) ==
  reconcileStatus(reconcileOwnerRef(reconcileLabels(obj, p), PolicyCluster(p)), tgts, ev)

\* C7: after a pass that resolved targets, the status holds the number of
\* targets resolved and the number classified healthy in that pass (and so
\* does the stored object once patched); the healthy count of a stored
\* policy never exceeds its expected count.
C7_StatusCounts ==
  /\ \A w \in Workers :
       (Done(w) /\ pass[w].path = "ok") =>
         /\ pass[w].m.status.expectedMachines = Len(pass[w].targets)
         /\ pass[w].m.status.currentHealthy = pass[w].eval.currentHealthy
         /\ pass[w].patchErr = Nil => mhc[pass[w].req].status = pass[w].m.status
  /\ \A p \in PolicyIds : mhc[p].status.currentHealthy <= mhc[p].status.expectedMachines

\* C7 witness: p1 resolved three targets, one of them healthy, and patched.
C7_Witness ==
  \E w \in Workers :
    /\ Done(w) /\ pass[w].path = "ok" /\ pass[w].patchErr = Nil
    /\ Len(pass[w].targets) = 3
    /\ mhc[pass[w].req].status = [expectedMachines |-> 3, currentHealthy |-> 1]

\* C8: a successful pass returns as requeue delay the smallest next-check
\* time of the targets not yet decidable, and no requeue when there is none.
C8_RequeueIsMinimum ==
  \A w \in Workers :
    (Done(w) /\ pass[w].path = "ok" /\ pass[w].reterr = Nil) =>
      LET d == pass[w].eval.nextCheckTimes
      IN IF d = <<>> THEN pass[w].result = 0
         ELSE /\ pass[w].result > 0
              /\ pass[w].result \in Range(d)
              /\ \A i \in 1..Len(d) : pass[w].result <= d[i]

\* C8 witness: two targets not yet decidable, with different next-check times.
C8_Witness ==
  \E w \in Workers :
    /\ Done(w) /\ pass[w].path = "ok" /\ pass[w].reterr = Nil
    /\ Len(pass[w].eval.nextCheckTimes) = 2
    /\ pass[w].eval.nextCheckTimes[1] # pass[w].eval.nextCheckTimes[2]
    /\ pass[w].result = 1

\* C9 as stated: after every pass on an existing policy that returns no
\* error, the stored policy has an owner reference to its cluster.
C9_OwnerRefAfterEverySuccess ==
  \A w \in Workers :
    (Done(w) /\ pass[w].req \in PolicyIds /\ pass[w].reterr = Nil)
      => HasClusterOwnerRef(mhc[pass[w].req], PolicyCluster(pass[w].req))

\* C9 as amended: the same, for the passes that were not skipped because
\* the cluster or the policy is paused.
C9_OwnerRefAfterReconcile ==
  \A w \in Workers :
    (Done(w) /\ pass[w].req \in PolicyIds /\ pass[w].reterr = Nil /\ pass[w].path # "paused")
      => HasClusterOwnerRef(mhc[pass[w].req], PolicyCluster(pass[w].req))

\* C9 witness: p2, which carried a stale reference, was reconciled.
C9_Witness ==
  \E w \in Workers :
    /\ Done(w) /\ pass[w].req = "p2" /\ pass[w].reterr = Nil /\ pass[w].path = "ok"
    /\ mhc["p2"].ownerReferences = <<ClusterRef("cA")>>

\* C10: what a successful pass persists is what one more pass on the same
\* inputs persists; no policy holds two references to its cluster; a
\* patched policy has the cluster label of its spec.
C10_Idempotent ==
  /\ \A w \in Workers :
       (Done(w) /\ pass[w].path = "ok" /\ pass[w].patchErr = Nil) =>
         LET p == pass[w].req
         IN /\ mhc[p] = pass[w].m
            /\ PassOutcome(mhc[p], p, pass[w].targets, pass[w].eval) = mhc[p]
  /\ \A w \in Workers :
       (Done(w) /\ pass[w].patches = 1 /\ pass[w].patchErr = Nil) =>
         ClusterLabels(mhc[pass[w].req]) = {PolicySpec[pass[w].req].clusterName}
  /\ \A p \in PolicyIds : Cardinality(ClusterRefs(mhc[p], PolicyCluster(p))) <= 1

\* C10 witness: a second pass of p1 on the same inputs patched and left the
\* stored object as the first pass had written it.
C10_Witness ==
  \E w \in Workers :
    /\ Done(w) /\ pass[w].req = "p1" /\ pass[w].path = "ok" /\ pass[w].patchErr = Nil
    /\ pass[w].before.status.expectedMachines = 3
    /\ pass[w].before = mhc["p1"]


\* The step that takes worker w from idle to a returned pass on path.
Returned(w, path) ==
  pass[w].pc = "idle" /\ pass'[w].pc = "done" /\ pass'[w].path = path

\* C11: a pass for a policy that no longer exists returns success: no error
\* and no requeue; it changes nothing: the stored policies, the registry
\* and the informers are as before, no patch is attempted and no event is
\* emitted.
C11_NotFoundIsSuccess ==
  [][\A w \in Workers :
       Returned(w, "notFound") =>
         /\ pass'[w].reterr = Nil
         /\ pass'[w].result = 0
         /\ pass'[w].patches = 0
         /\ pass'[w].events = 0
         /\ mhc' = mhc
         /\ clusterNodeInformers' = clusterNodeInformers
         /\ informers' = informers]_vars
C11_Witness ==
  \E w \in Workers : Done(w) /\ pass[w].path = "notFound" /\ pass[w].req = GonePolicy

\* C12: a pass for a paused cluster or a paused policy returns success
\* without a requeue and leaves everything as it was: the labels, the owner
\* references and the status of the stored policy, the registry and the
\* informers; it attempts no patch and resolves no targets.
C12_PausedChangesNothing ==
  [][\A w \in Workers :
       Returned(w, "paused") =>
         /\ IsPaused(PolicyCluster(pass'[w].req), pass'[w].req)
         /\ pass'[w].reterr = Nil
         /\ pass'[w].result = 0
         /\ pass'[w].patches = 0
         /\ pass'[w].targets = <<>>
         /\ mhc' = mhc
         /\ clusterNodeInformers' = clusterNodeInformers
         /\ informers' = informers]_vars
C12_Witness ==
  \E w \in Workers :
    /\ Done(w) /\ pass[w].path = "paused"
    /\ mhc[pass[w].req] # reconcileOwnerRef(reconcileLabels(mhc[pass[w].req], pass[w].req),
                                            PolicyCluster(pass[w].req))

\* The step in which worker w starts a pass that fails on building the
\* client of the target cluster (remote.NewClusterClient, line 182).
ClientFailed(w) ==
  Returned(w, "reconcileErr") /\ Head(pass'[w].reterr) = "client"

\* C13 as stated: when building the client of the target cluster fails, the
\* pass returns that error and the persisted policy (labels, owner
\* references, status counters) and the registry are the same as before.
C13_ClientErrorChangesNothing ==
  [][\A w \in Workers :
       ClientFailed(w) =>
         /\ "client" \in Range(pass'[w].reterr)
         /\ mhc' = mhc
         /\ clusterNodeInformers' = clusterNodeInformers]_vars

\* C13 amended: when building the client of the target cluster fails, the
\* pass returns that error without a requeue delay; the status counters of
\* the persisted policy, the other policies, the registry and the informers
\* are the same as before, and the deferred patch, when it succeeds, has
\* persisted the cluster label and the owner reference set before the
\* failure.
C13_ClientErrorKeepsStatus ==
  [][\A w \in Workers :
       ClientFailed(w) =>
         LET p == pass'[w].req IN
         /\ "client" \in Range(pass'[w].reterr)
         /\ pass'[w].result = 0
         /\ mhc'[p].status = mhc[p].status
         /\ \A q \in PolicyIds \ {p} : mhc'[q] = mhc[q]
         /\ clusterNodeInformers' = clusterNodeInformers
         /\ informers' = informers
         /\ pass'[w].patches = 1
         /\ (pass'[w].patchErr = Nil) =>
              /\ <<ClusterLabelName, PolicySpec[p].clusterName>> \in mhc'[p].labels
              /\ HasClusterOwnerRef(mhc'[p], PolicyCluster(p))]_vars
C13_Witness ==
  \E w \in Workers :
    /\ Done(w) /\ pass[w].path = "reconcileErr" /\ pass[w].reterr = <<"client">>
    /\ pass[w].before.labels = {}
    /\ <<ClusterLabelName, PolicySpec[pass[w].req].clusterName>> \in mhc[pass[w].req].labels

\* The machines whose node reference names node n, in every cluster.
MachinesOnNode(n) == {mid \in DOMAIN Machines : routing.node[mid] = n}
\* The policy p selects the labels ls: its selector parses, is not empty
\* and every label it asks for is among ls.
Selects(p, ls) ==
  /\ RoutingPolicySpec[p].selector.valid
  /\ RoutingPolicySpec[p].selector.matchLabels # {}
  /\ \A kv \in RoutingPolicySpec[p].selector.matchLabels : kv \in ls
\* The policies of the namespace and the cluster of machine mid that select it.
PoliciesSelecting(mid) ==
  {p \in Range(RoutingPolicyOrder) :
     /\ RoutingPolicySpec[p].namespace = Machines[mid].namespace
     /\ RoutingPolicySpec[p].clusterName = Machines[mid].clusterName
     /\ Selects(p, routing.labels[mid])}
\* The last event was on a node and no list failed while it was mapped.
NodeMapped == routing.event.kind = "node" /\ routing.event.fails = "none"

\* C14: for a node whose name is indexed to exactly one machine, the node
\* mapping produces exactly the requests the machine mapping produces for
\* that machine: the policies of the machine's namespace and cluster whose
\* selector matches its labels; for a node indexed to no machine or to two
\* or more, it produces no request.
C14_NodeRoutesAsItsMachine ==
  NodeMapped =>
    LET ms == MachinesOnNode(routing.event.name) IN
    IF Cardinality(ms) = 1
    THEN LET mid == CHOOSE x \in ms : TRUE IN
         /\ routing.requests = machineToMachineHealthCheck(MachineObject(routing, mid), FALSE)
         /\ Range(routing.requests) = PoliciesSelecting(mid)
         /\ Len(routing.requests) = Cardinality(PoliciesSelecting(mid))
    ELSE routing.requests = <<>>
\* A node indexed to one machine that a policy selects.
C14_Witness ==
  /\ NodeMapped
  /\ Cardinality(MachinesOnNode(routing.event.name)) = 1
  /\ routing.requests # <<>>

\* The policies whose selector is empty or does not parse.
MatchNothingPolicies ==
  {p \in Range(RoutingPolicyOrder) :
     ~RoutingPolicySpec[p].selector.valid \/ RoutingPolicySpec[p].selector.matchLabels = {}}

\* C15: a policy whose selector is empty or unparseable matches no machine:
\* hasMatchingLabels is false for it on every machine and every label set,
\* and no machine event and no node event produces a request for it.
C15_EmptySelectorMatchesNothing ==
  \A p \in MatchNothingPolicies :
    /\ \A ls \in LabelSets \cup {{}} \cup {routing.labels[mid] : mid \in DOMAIN Machines} :
         ~hasMatchingLabels(RoutingPolicySpec[p].selector, ls)
    /\ (routing.event.kind \in {"machine", "node"}) => p \notin Range(routing.requests)
\* A machine event mapped to requests while the list held both such policies.
C15_Witness ==
  /\ routing.event.kind = "machine"
  /\ routing.event.fails = "none"
  /\ MatchNothingPolicies \subseteq
       Range(ListMachineHealthChecks(Machines[routing.event.name].namespace,
                                     Machines[routing.event.name].clusterName))
  /\ Cardinality(MatchNothingPolicies) = 2
  /\ routing.requests # <<>>

\* The machines of cluster c whose node reference names node n.
MachinesOnNodeOf(c, n) ==
  {mid \in MachinesOnNode(n) :
     ClusterOf(Machines[mid].namespace, Machines[mid].clusterName) = c}

\* C20: the mapping of a node event is scoped to the cluster the node
\* belongs to: every request is for a policy of that cluster, and the
\* requests are those of the one machine of that cluster the node backs,
\* whatever machines of other clusters run on a node of the same name.
C20_NodeRoutingScopedToCluster ==
  NodeMapped =>
    LET c  == routing.event.cluster
        ms == MachinesOnNodeOf(c, routing.event.name)
    IN
    /\ \A p \in Range(routing.requests) :
         ClusterOf(RoutingPolicySpec[p].namespace, RoutingPolicySpec[p].clusterName) = c
    /\ IF Cardinality(ms) = 1
       THEN Range(routing.requests) = PoliciesSelecting(CHOOSE x \in ms : TRUE)
       ELSE routing.requests = <<>>

\* The step in which worker w evaluates the targets and returns.
Evaluated(w) ==
  pass[w].pc = "targets" /\ pass'[w].pc = "done" /\ pass'[w].path = "ok"
\* The node-startup timeout of policy p as the policy states it.
StartupTimeoutOf(p) ==
  IF PolicySpec[p].nodeStartupTimeout = <<>> THEN DefaultNodeStartupTimeout
  ELSE Head(PolicySpec[p].nodeStartupTimeout)
\* The positions in tgts of the targets without a node whose machine is
\* at least as old at time t as the node-startup timeout of policy p.
StartupExpired(tgts, p, t) ==
  {i \in 1..Len(tgts) :
     tgts[i].node = NoNode /\ t - Machines[tgts[i].machine].created >= StartupTimeoutOf(p)}

\* C16: in a pass, every target without a node whose age has reached the
\* node-startup timeout (the policy's, else 10 minutes) is in the
\* remediation set, and none of them is counted healthy or contributes a
\* next-check duration: the healthy count and the next-check durations come
\* from the other targets alone.
C16_StartupTimeoutUnhealthy ==
  [][\A w \in Workers :
       Evaluated(w) =>
         LET rec     == pass'[w]
             expired == StartupExpired(rec.targets, rec.req, now)
         IN
         /\ \A i \in expired : rec.targets[i] \in Range(rec.eval.needRemediationTargets)
         /\ rec.eval.currentHealthy + Len(rec.eval.nextCheckTimes)
              <= Len(rec.targets) - Cardinality(expired)
         /\ rec.m.status.currentHealthy <= Len(rec.targets) - Cardinality(expired)]_vars
\* A pass of p3, which sets its own timeout, has put machine mC in the
\* remediation set.
C16_Witness ==
  \E w \in Workers :
    /\ Done(w) /\ pass[w].path = "ok" /\ pass[w].req = "p3"
    /\ [machine |-> "mC", node |-> NoNode] \in Range(pass[w].eval.needRemediationTargets)
    /\ pass[w].eval.nextCheckTimes = <<>>

\* C17: the registry only grows: an entry of clusterNodeInformers is never
\* removed and never replaced by another informer, whatever passes run, and
\* an informer that has been started keeps running.
C17_RegistryOnlyGrows ==
  [][/\ \A k \in DOMAIN clusterNodeInformers :
          /\ k \in DOMAIN clusterNodeInformers'
          /\ clusterNodeInformers'[k] = clusterNodeInformers[k]
     /\ Len(informers') >= Len(informers)
     /\ \A i \in 1..Len(informers) : informers'[i] = informers[i]]_vars

\* The informers started for cluster c, registered with the controller or not.
StreamsOf(c) == {i \in 1..Len(informers) : informers[i].cluster = c}
\* The registry entries that hold an informer of cluster c.
EntriesOf(c) ==
  {k \in DOMAIN clusterNodeInformers :
     informers[clusterNodeInformers[k]].cluster = c}

\* C18: every node informer that has been started is recorded in the
\* registry: whenever no pass is between starting an informer and recording
\* it, each cluster has as many running informers as registry entries, and
\* at most one.
C18_EveryStreamRecorded ==
  (\A w \in Workers : pass[w].pc # "insert") =>
    \A c \in ClusterIds :
      /\ Cardinality(StreamsOf(c)) = Cardinality(EntriesOf(c))
      /\ Cardinality(StreamsOf(c)) <= 1

\* A pass of policy p has returned with machine mid, which has no node,
\* among its targets and not in the remediation set: not yet decidable.
LeftPending(p, mid) ==
  \E w \in Workers :
    /\ Done(w) /\ pass[w].path = "ok" /\ pass[w].req = p
    /\ [machine |-> mid, node |-> NoNode] \in Range(pass[w].targets)
    /\ [machine |-> mid, node |-> NoNode] \notin Range(pass[w].eval.needRemediationTargets)
\* A pass of policy p has put machine mid in the remediation set.
Remediated(p, mid) ==
  \E w \in Workers :
    /\ Done(w) /\ pass[w].path = "ok" /\ pass[w].req = p
    /\ [machine |-> mid, node |-> NoNode] \in Range(pass[w].eval.needRemediationTargets)

\* The targets that have no node: a policy and a machine it selects.
NoNodeTargets ==
  {pm \in PolicyIds \X DOMAIN Machines :
     [machine |-> pm[2], node |-> NoNode] \in Range(getTargetsFromMHC(pm[1]))}
\* A pass that has left a target undecided has returned a positive delay.
PendingHasRequeue ==
  \A pm \in NoNodeTargets :
    LeftPending(pm[1], pm[2]) =>
      \E w \in Workers : pass[w].req = pm[1] /\ pass[w].result > 0

\* C19 as stated: a pass that leaves a target not yet decidable returns a
\* strictly positive requeue delay, and with the queue firing the requeues
\* it has scheduled and no pass failing, a machine that never gets a node
\* and that a pass has left undecided is eventually placed in the
\* remediation set.
C19_PendingEventuallyDecided ==
  /\ []PendingHasRequeue
  /\ \A pm \in NoNodeTargets :
       LeftPending(pm[1], pm[2]) ~> Remediated(pm[1], pm[2])

\* C19 amended: a pass that leaves a target not yet decidable returns a
\* strictly positive requeue delay, and with the queue firing the requeues
\* it has scheduled and no pass failing, a machine that never gets a node
\* and that a pass has left undecided is eventually placed in the
\* remediation set, unless its Cluster or its policy is paused at some
\* later time.
C19_PendingDecidedUnlessPaused ==
  /\ []PendingHasRequeue
  /\ \A pm \in NoNodeTargets :
       LeftPending(pm[1], pm[2]) ~>
         (Remediated(pm[1], pm[2]) \/ IsPaused(PolicyCluster(pm[1]), pm[1]))
\* A pass of p3 has left machine mC undecided and asked for a requeue.
C19_Witness ==
  /\ LeftPending("p3", "mC")
  /\ \E w \in Workers : pass[w].req = "p3" /\ pass[w].result > 0 /\ pass[w].reterr = Nil

=============================================================================
